---------------------------- MODULE Spec2Model ----------------------------
(***************************************************************************)
(* Model of the pharmaceutical research pipeline:                          *)
(*   - api/analysis.py: the in-memory job record, run_analysis_pipeline    *)
(*     and update_step_progress;                                           *)
(*   - agents/orchestrator.py: AgentOrchestrator.run and _format_results;  *)
(*   - agents/base.py: BaseAgent.run (timing and error containment);       *)
(*   - services/rag_service.py: RAGService.search and _mock_search;        *)
(*   - agents/molecule_agent.py: the extraction fallback chain;            *)
(*   - the evidence filters of the molecule, clinical, market and          *)
(*     regulatory agents;                                                  *)
(*   - api/analysis.py: stream_analysis_progress beside a running job;     *)
(*   - services/analysis_service.py: the two stores of AnalysisService     *)
(*     and the agent instances its jobs share;                             *)
(*   - services/chat_service.py: ChatService.process_message.              *)
(*                                                                         *)
(* The pipeline runs on one asyncio event loop: a task runs without        *)
(* interruption until it awaits something that really suspends.  The       *)
(* variable cur names the task that holds the loop; "Y" items of an        *)
(* agent's script are the points where its execute suspends.               *)
(***************************************************************************)
EXTENDS Integers, Sequences, FiniteSets, TLC

(***************************************************************************)
(* Bounds                                                                  *)
(***************************************************************************)
\* longest list of requested analysis types
MaxTypes == 3

(***************************************************************************)
(* Program constants                                                       *)
(***************************************************************************)
\* the step list of run_analysis_pipeline, in order
StepIds == <<"parse", "molecule", "clinical", "market", "regulatory", "patent", "synthesizer">>

\* AnalysisType enum values
AnalysisTypes == {"clinical", "market", "regulatory", "competitive", "safety"}

\* the agents created by _initialize_agents
Agents == {"molecule", "clinical", "market", "regulatory", "synthesizer"}

\* the agents that may be gathered concurrently
FanOut == {"clinical", "market", "regulatory"}

\* step statuses that end a step ("error" is listed by AgentStep)
TerminalStep == {"completed", "error"}

VARIABLES
    status,           \* analyses_store[id]["status"]; "none" = no record yet
    types,            \* analyses_store[id]["analysis_types"]
    steps,            \* analyses_store[id]["steps"], a list of step records
    progress7,        \* analyses_store[id]["progress"], multiplied by Len(StepIds)
    current_step,     \* analyses_store[id]["current_step"] (0-based index)
    report,           \* analyses_store[id]["results"]; NoReport until set
    error,            \* analyses_store[id]["error"]; "absent" until set
    pc,               \* position of AgentOrchestrator.run inside the pipeline
    agent_results,    \* results["agent_results"] of AgentOrchestrator.run
    context,          \* the context dict of AgentOrchestrator.run
    analysis_agents,  \* the list of selected fan-out agents
    task,             \* per agent: state of its BaseAgent.run call
    cur,              \* the task holding the event loop during the gather
    joins,            \* number of times asyncio.gather has returned
    entry,            \* who started the job: "api", "service", "none" before
    active,           \* AnalysisService.active_analyses[id]; NoEntry if none
    completed,        \* AnalysisService.completed_analyses[id]; NoEntry if none
    rag,              \* one call of RAGService.search: store, arguments, outcome
    ext,              \* one call of _extract_molecule_info_from_context
    env,              \* which of the module-level services are available
    pub,              \* the latest direct call of update_step_progress
    sel,              \* the evidence one agent passes on from a search result
    obs,              \* one stream_analysis_progress generator
    dur,              \* two jobs running one shared agent instance
    chat              \* ChatService.conversations[id] and the calls on it

\* the state of the job pipeline
pipevars == <<status, types, steps, progress7, current_step, report, error, pc,
              agent_results, context, analysis_agents, task, cur, joins,
              entry, active, completed>>

vars == <<status, types, steps, progress7, current_step, report, error, pc,
          agent_results, context, analysis_agents, task, cur, joins,
          entry, active, completed, rag, ext, env, pub, sel, obs, dur, chat>>

(***************************************************************************)
(* Helpers on sequences                                                    *)
(***************************************************************************)
RECURSIVE SeqsUpTo(_, _)
SeqsUpTo(S, n) ==
    IF n = 0 THEN {<<>>}
    ELSE LET shorter == SeqsUpTo(S, n - 1)
         IN  shorter \cup {Append(s, x) : s \in {t \in shorter : Len(t) = n - 1}, x \in S}

Range(s) == {s[i] : i \in 1..Len(s)}

\* python: "x in analysis_types"
In(x, lst) == x \in Range(lst)

\* the requests a caller can submit: the lists without repetition, and the
\* lists that name one type twice
Requests ==
    {r \in SeqsUpTo(AnalysisTypes, MaxTypes) :
        \A i, j \in 1..Len(r) : r[i] = r[j] => i = j}
    \cup {<<t, t>> : t \in AnalysisTypes}

(***************************************************************************)
(* api/analysis.py: update_step_progress                                   *)
(***************************************************************************)
\* index of the first step whose id is step_id, 0 when there is none
RECURSIVE FindStep(_, _, _)
FindStep(lst, step_id, i) ==
    IF i > Len(lst) THEN 0
    ELSE IF lst[i].id = step_id THEN i
    ELSE FindStep(lst, step_id, i + 1)

\* variant: the comparison is strict, 100 is still in progress
StepStatusForStrict(p) == IF p > 100 THEN "completed" ELSE "in-progress"

\* step["status"] = "completed" if progress >= 100 else "in-progress"
StepStatusFor(p) == IF p >= 100 THEN "completed" ELSE "in-progress"

\* the step record after one publication (summary "None" leaves the old one)
UpdatedStep(step, p, summary) ==
    [step EXCEPT
        !.status = StepStatusFor(p),
        !.progress = p,
        !.result_summary = IF summary # "None" THEN summary ELSE @,
        !.end_time = IF p >= 100 THEN TRUE ELSE @,
        !.start_time = IF p < 100 /\ ~step.start_time THEN TRUE ELSE @]

\* variant: every publication adds an entry to the list
StepsAfterAppend(lst, step_id, p, summary) ==
    LET i == FindStep(lst, step_id, 1)
    IN  IF i = 0 THEN lst
        ELSE Append(lst, [lst[i] EXCEPT !.status = IF p >= 100 THEN "completed" ELSE "in-progress",
                                        !.progress = p])

\* the step list after update_step_progress(step_id, p, summary)
StepsAfter(lst, step_id, p, summary) ==
    LET i == FindStep(lst, step_id, 1)
    IN  IF i = 0 THEN lst
        ELSE [lst EXCEPT ![i] = UpdatedStep(lst[i], p, summary)]

\* variant: a step that has started counts as completed
CompletedStepsStarted(lst) == Cardinality({i \in 1..Len(lst) : lst[i].status # "none"})

\* sum(1 for s in steps if s.get("status") == "completed")
CompletedSteps(lst) == Cardinality({i \in 1..Len(lst) : lst[i].status = "completed"})

\* update_step_progress as a whole: the progress callback given to the orchestrator
Publish(step_id, p, summary) ==
    LET i == FindStep(steps, step_id, 1)
        new == StepsAfter(steps, step_id, p, summary)
    IN  IF status = "none" \/ i = 0
        THEN UNCHANGED <<steps, progress7, current_step>>
        ELSE /\ steps' = new
             /\ progress7' = CompletedSteps(new) * 100
             /\ current_step' = i - 1

\* the step definitions written by run_analysis_pipeline: no status key yet
NewStep(id) == [id |-> id, status |-> "none", progress |-> -1,
                result_summary |-> "None", start_time |-> FALSE, end_time |-> FALSE]

InitialSteps == [i \in 1..Len(StepIds) |-> NewStep(StepIds[i])]

(***************************************************************************)
(* agents: the progress checkpoints of each execute                        *)
(***************************************************************************)
\* marks, in a script, an await that suspends the task (asyncio.sleep, LLM call)
Y == -1

\* variant: the clinical agent reports 100 before its last checkpoint
ExecScriptsEarlyDone(a) ==
    CASE a = "molecule"    -> {<<10, 20, 40, Y, 60, Y, 80, 100>>,
                               <<10, 20, 40, Y, 60, 100>>}
      [] a = "clinical"    -> {<<10, 30, Y, 50, Y, 70, 100, Y, 90>>}
      [] a = "market"      -> {<<10, 30, Y, 50, Y, 70, 85, 95, Y, 100>>}
      [] a = "regulatory"  -> {<<10, 30, Y, 50, Y, 70, 85, Y, 100>>}
      [] a = "synthesizer" -> {<<10, Y, 30, Y, 50, Y, 70, Y, 90, Y, 100>>}

\* what execute publishes, in order.  The molecule agent has two branches:
\* extraction from the knowledge base, or the reference database lookup.
ExecScripts(a) ==
    CASE a = "molecule"    -> {<<10, 20, 40, Y, 60, Y, 80, 100>>,
                               <<10, 20, 40, Y, 60, 100>>}
      [] a = "clinical"    -> {<<10, 30, Y, 50, Y, 70, 90, Y, 100>>}
      [] a = "market"      -> {<<10, 30, Y, 50, Y, 70, 85, 95, Y, 100>>}
      [] a = "regulatory"  -> {<<10, 30, Y, 50, Y, 70, 85, Y, 100>>}
      [] a = "synthesizer" -> {<<10, Y, 30, Y, 50, Y, 70, Y, 90, Y, 100>>}

(***************************************************************************)
(* agents/base.py: BaseAgent.run                                           *)
(***************************************************************************)
\* the dict returned when execute returned
SuccessResult == [status |-> "success", data |-> "dict"]

\* variant: the except branch reports a success without data
ErrorResultAsSuccess == [status |-> "success", data |-> "None"]

\* the dict returned when execute raised: "data": None
ErrorResult == [status |-> "error", data |-> "None"]

\* no entry in a dict
Absent == [status |-> "absent", data |-> "nokey"]

\* an agent whose run has not been called.  first and last are the first and
\* the latest progress the run gave to its callback (-1: none yet), raised
\* tells that execute raised
IdleTask == [st |-> "idle", todo |-> <<>>, result |-> Absent,
             raised |-> FALSE, first |-> -1, last |-> -1]

(***************************************************************************)
(* agents/orchestrator.py                                                  *)
(***************************************************************************)
\* the agent that serves an analysis type ("none": no fan-out agent)
AgentOf(t) ==
    CASE t = "clinical" -> "clinical"
      [] t \in {"market", "competitive"} -> "market"
      [] t = "regulatory" -> "regulatory"
      [] OTHER -> "none"

\* the agents of a request in the order the caller listed their types
RECURSIVE RequestedOrder(_)
RequestedOrder(lst) ==
    IF lst = <<>> THEN <<>>
    ELSE LET before == RequestedOrder(SubSeq(lst, 1, Len(lst) - 1))
             a == AgentOf(lst[Len(lst)])
         IN  IF a = "none" \/ In(a, before) THEN before ELSE Append(before, a)

\* variant: the agents are selected in the order of the request
SelectAgentsAsRequested(lst) == RequestedOrder(lst)

\* the selection of lines 91-98, in the fixed order clinical, market, regulatory
SelectAgents(lst) ==
    (IF In("clinical", lst) THEN <<"clinical">> ELSE <<>>)
    \o (IF In("market", lst) \/ In("competitive", lst) THEN <<"market">> ELSE <<>>)
    \o (IF In("regulatory", lst) THEN <<"regulatory">> ELSE <<>>)

\* d.get(key, {}).get("data", {}) on the agent_results dict
GetData(res, key) ==
    IF res[key].status = "absent" \/ res[key].data = "nokey" THEN "empty"
    ELSE res[key].data

\* result.get("data", {}) on one result dict
ResultData(r) == IF r.data = "nokey" THEN "empty" ELSE r.data

\* calling .get on the value raises AttributeError when the value is None
Derefs(v) == v # "None"

\* lines 129-132: context.get("regulatory_data", {}).get("patent_info", {})
PatentRaises(ctx) == ~Derefs(IF ctx["regulatory_data"] = "absent" THEN "empty"
                             ELSE ctx["regulatory_data"])

\* variant: the regulatory data has a patent_info entry
RegulatoryKeysWithPatentInfo ==
    {"fda", "ema", "approvalDate", "patentExpiry", "approvedIndications", "labelWarnings",
     "patentAnalysis", "regulatoryPathway", "exclusivityStatus", "recentActions", "sources",
     "patent_info"}

\* regulatory_agent.py lines 152-170: the keys of the dict execute returns
RegulatoryKeys ==
    {"fda", "ema", "approvalDate", "patentExpiry", "approvedIndications", "labelWarnings",
     "patentAnalysis", "regulatoryPathway", "exclusivityStatus", "recentActions", "sources"}

\* line 131: the value of .get("patent_info", {}) on the regulatory data
PatentData(ctx) ==
    IF ctx["regulatory_data"] = "dict" /\ "patent_info" \in RegulatoryKeys
    THEN "patent_info"
    ELSE "empty"

\* variant: a synthesizer result without data is read as an empty dict
FormatRaisesFanOutOnly(res) ==
    \/ ~Derefs(GetData(res, "clinical"))
    \/ ~Derefs(GetData(res, "regulatory"))

\* _format_results raises when it calls .get on a data value that is None
FormatRaises(res) ==
    \/ ~Derefs(GetData(res, "clinical"))
    \/ ~Derefs(GetData(res, "regulatory"))
    \/ ~Derefs(GetData(res, "synthesizer"))

\* variant: the citations of the synthesis are left out of the report
FormatResultsNoSources(res) ==
    [moleculeData     |-> GetData(res, "molecule"),
     clinicalTrials   |-> IF GetData(res, "clinical") = "dict" THEN "trials" ELSE "empty",
     marketData       |-> GetData(res, "market"),
     regulatoryStatus |-> IF GetData(res, "regulatory") = "dict" THEN "known" ELSE "Unknown",
     patentInfo       |-> IF GetData(res, "regulatory") = "dict" THEN "known" ELSE "Unknown",
     insights         |-> IF GetData(res, "synthesizer") = "dict" THEN "list" ELSE "empty",
     sources          |-> 0]

\* the dict built by _format_results
FormatResults(res) ==
    [moleculeData     |-> GetData(res, "molecule"),
     clinicalTrials   |-> IF GetData(res, "clinical") = "dict" THEN "trials" ELSE "empty",
     marketData       |-> GetData(res, "market"),
     regulatoryStatus |-> IF GetData(res, "regulatory") = "dict" THEN "known" ELSE "Unknown",
     patentInfo       |-> IF GetData(res, "regulatory") = "dict" THEN "known" ELSE "Unknown",
     insights         |-> IF GetData(res, "synthesizer") = "dict" THEN "list" ELSE "empty",
     sources          |-> IF GetData(res, "synthesizer") = "dict" THEN 5 ELSE 0]

\* variant: only a missing value is skipped, None is taken for data
TruthyNotEmpty(v) == v # "empty"

\* python: "if data:" - None and the empty dict are false
Truthy(v) == v = "dict"

\* InsightSynthesizerAgent.execute reads the four results it is given with
\* .get(key, {}).get("data", {}); every later read of a value is guarded by
\* its truth.  It raises when a guarded read is made on a value that has no .get
SynthInputRaises(res) ==
    \E k \in {"molecule", "clinical", "market", "regulatory"} :
        Truthy(GetData(res, k)) /\ ~Derefs(GetData(res, k))

\* analyses_store[id] has no "results" key
NoReport ==
    [moleculeData |-> "absent", clinicalTrials |-> "absent", marketData |-> "absent",
     regulatoryStatus |-> "absent", patentInfo |-> "absent", insights |-> "absent",
     sources |-> 0]

\* the AnalysisService dicts have no entry for the analysis id
NoEntry == [status |-> "absent", error |-> "absent", results |-> NoReport]

ContextKeys == {"molecule_data", "clinical_data", "market_data", "regulatory_data"}

\* no search is being made
RagIdle == [phase |-> "idle", collection |-> <<>>, available |-> FALSE, query |-> "other",
            n_results |-> 0, category_filter |-> "None", query_raises |-> FALSE,
            out |-> <<>>, raised |-> FALSE]

\* no extraction is being made
ExtIdle == [phase |-> "idle", llm_available |-> FALSE, response |-> <<>>,
            source |-> "none", value |-> "none", raised |-> FALSE]

(***************************************************************************)
(* Initial state: the module-level analyses_store is empty                 *)
(***************************************************************************)
PipelineInit ==
    /\ status = "none"
    /\ types = <<>>
    /\ steps = <<>>
    /\ progress7 = 0
    /\ current_step = 0
    /\ report = NoReport
    /\ error = "absent"
    /\ pc = "idle"
    /\ agent_results = [s \in Range(StepIds) |-> Absent]
    /\ context = [k \in ContextKeys |-> "absent"]
    /\ analysis_agents = <<>>
    /\ task = [a \in Agents |-> IdleTask]
    /\ cur = "main"
    /\ joins = 0
    /\ entry = "none"
    /\ active = NoEntry
    /\ completed = NoEntry

\* update_step_progress has not been called directly
PubIdle == [id |-> "none", p |-> -1, summary |-> "None", n |-> 0, repeat |-> FALSE]

\* no agent has read a search result
SelIdle == [phase |-> "idle", step |-> "none", contexts |-> <<>>]

\* no stream is open
ObsIdle == [st |-> "closed", last |-> "none", polled |-> FALSE]

\* most jobs that run through one AnalysisService at a time
MaxJobs == 2

Jobs == 1..MaxJobs

\* a job that has not called the shared agent's run.  own is the start time
\* the run captured, used the start time its duration was computed from
IdleRun == [st |-> "idle", left |-> 0, own |-> 0, used |-> 0]

\* one agent instance of the service's orchestrator: its start_time
\* attribute (0: None), the time, and the run of each job
DurIdle == [clock |-> 0, start_time |-> 0, runs |-> [j \in Jobs |-> IdleRun]]

\* most concurrent calls of ChatService.process_message
MaxCalls == 2

Calls == 1..MaxCalls

\* the conversation ids the callers pass
ConvIds == {1, 2}

\* the list objects: object k is the list stored for conversation k when
\* the calls begin, object 2 + c the [] made by call c; 0 is no list
ListObjs == 1..(2 + MaxCalls)

\* a call that has not begun.  history is the list object the call holds
IdleCall == [pc |-> "idle", conv |-> 0, history |-> 0]

\* ChatService(): no conversation is stored, no call is running
ChatIdle == [llm |-> FALSE,
             conversations |-> [k \in ConvIds |-> 0],
             lists |-> [o \in ListObjs |-> <<>>],
             calls |-> [c \in Calls |-> IdleCall]]

\* rag_service.is_available and llm_service.is_available are fixed when the
\* module-level singletons are built
Envs == [store : BOOLEAN, llm : BOOLEAN]

Init ==
    /\ PipelineInit
    /\ rag = RagIdle
    /\ ext = ExtIdle
    /\ env \in Envs
    /\ pub = PubIdle
    /\ sel = SelIdle
    /\ obs = ObsIdle
    /\ dur = DurIdle
    /\ chat = ChatIdle

(***************************************************************************)
(* api/analysis.py: start_analysis and run_analysis_pipeline               *)
(***************************************************************************)
\* variant: the analysis id is reused, a finished record is overwritten
StartAnalysisReuse ==
    /\ entry \in {"none", "api"}
    /\ pc \in {"idle", "done"}
    /\ entry' = "api"
    /\ \E req \in Requests : types' = req
    /\ status' = "processing"
    /\ steps' = <<>>
    /\ progress7' = 0
    /\ current_step' = 0
    /\ pc' = "scheduled"
    /\ UNCHANGED <<report, error, agent_results, context, analysis_agents, task, cur, joins,
                   active, completed>>
    /\ UNCHANGED <<rag, ext, env, pub, sel, obs, dur, chat>>

\* POST /analysis/start: create the record and schedule the pipeline
StartAnalysis ==
    /\ entry = "none"
    /\ entry' = "api"
    /\ \E req \in Requests : types' = req
    /\ status' = "processing"
    /\ steps' = <<>>
    /\ progress7' = 0
    /\ current_step' = 0
    /\ pc' = "scheduled"
    /\ UNCHANGED <<report, error, agent_results, context, analysis_agents, task, cur, joins,
                   active, completed>>
    /\ UNCHANGED <<rag, ext, env, pub, sel, obs, dur, chat>>

\* run_analysis_pipeline up to the call of orchestrator.run
BeginPipeline ==
    /\ pc = "scheduled"
    /\ steps' = InitialSteps
    /\ pc' = "parse0"
    /\ UNCHANGED <<entry, active, completed, status, types, progress7, current_step, report, error,
                   agent_results, context, analysis_agents, task, cur, joins>>
    /\ UNCHANGED <<rag, ext, env, pub, sel, obs, dur, chat>>

(***************************************************************************)
(* services/analysis_service.py: AnalysisService.start_analysis            *)
(***************************************************************************)
\* lines 37-58: track the analysis, then call orchestrator.run.  The service
\* has no record in analyses_store, so publications change nothing.
ServiceStart ==
    /\ entry = "none"
    /\ entry' = "service"
    /\ \E req \in Requests : types' = req
    /\ active' = [status |-> "processing", error |-> "absent", results |-> NoReport]
    /\ pc' = "parse0"
    /\ UNCHANGED <<status, steps, progress7, current_step, report, error, agent_results,
                   context, analysis_agents, task, cur, joins, completed>>
    /\ UNCHANGED <<rag, ext, env, pub, sel, obs, dur, chat>>

\* variant: the service moves a failed job to completed_analyses
FailJobMoved(msg) ==
    /\ pc' = "done"
    /\ UNCHANGED report
    /\ IF entry = "service"
       THEN /\ completed' = [active EXCEPT !.status = "failed", !.error = msg]
            /\ active' = NoEntry
            /\ UNCHANGED <<status, error>>
       ELSE /\ status' = "error"
            /\ error' = msg
            /\ UNCHANGED <<active, completed>>

\* orchestrator.run raised: the except branch of run_analysis_pipeline, or
\* the except branch of AnalysisService.start_analysis
FailJob(msg) ==
    /\ pc' = "done"
    /\ UNCHANGED <<report, completed>>
    /\ IF entry = "service"
       THEN /\ active' = IF active # NoEntry
                         THEN [active EXCEPT !.status = "failed", !.error = msg]
                         ELSE active
            /\ UNCHANGED <<status, error>>
       ELSE /\ status' = "error"
            /\ error' = msg
            /\ UNCHANGED active

\* orchestrator.run returned: the final update of run_analysis_pipeline, or
\* the move from active_analyses to completed_analyses
CompleteJob(results) ==
    /\ pc' = "done"
    /\ UNCHANGED error
    /\ IF entry = "service"
       THEN /\ completed' = [active EXCEPT !.status = "completed", !.results = results]
            /\ active' = NoEntry
            /\ UNCHANGED <<status, progress7, report>>
       ELSE /\ status' = "completed"
            /\ progress7' = 100 * Len(StepIds)
            /\ report' = results
            /\ UNCHANGED <<active, completed>>

\* AnalysisService.get_analysis_result: the results of a completed job,
\* None (NoReport) for every other id
GetAnalysisResult == IF completed # NoEntry THEN completed.results ELSE NoReport

(***************************************************************************)
(* AgentOrchestrator.run, sequential part                                  *)
(***************************************************************************)
\* variant: the molecule step is announced without the parse step being closed
ParseStartSkip ==
    /\ pc = "parse0"
    /\ Publish("parse", 0, "None")
    /\ pc' = "mol0"
    /\ UNCHANGED <<entry, active, completed, status, types, report, error, agent_results, context,
                   analysis_agents, task, cur, joins>>
    /\ UNCHANGED <<rag, ext, env, pub, sel, obs, dur, chat>>

\* progress_callback("parse", 0, None), then asyncio.sleep(0.5)
ParseStart ==
    /\ pc = "parse0"
    /\ Publish("parse", 0, "None")
    /\ pc' = "parse100"
    /\ UNCHANGED <<entry, active, completed, status, types, report, error, agent_results, context,
                   analysis_agents, task, cur, joins>>
    /\ UNCHANGED <<rag, ext, env, pub, sel, obs, dur, chat>>

\* progress_callback("parse", 100, "Query parsed: ...")
ParseDone ==
    /\ pc = "parse100"
    /\ Publish("parse", 100, "parsed")
    /\ pc' = "mol0"
    /\ UNCHANGED <<entry, active, completed, status, types, report, error, agent_results, context,
                   analysis_agents, task, cur, joins>>
    /\ UNCHANGED <<rag, ext, env, pub, sel, obs, dur, chat>>

\* progress_callback("molecule", 0, None)
MoleculeAnnounce ==
    /\ pc = "mol0"
    /\ Publish("molecule", 0, "None")
    /\ pc' = "molrun"
    /\ UNCHANGED <<entry, active, completed, status, types, report, error, agent_results, context,
                   analysis_agents, task, cur, joins>>
    /\ UNCHANGED <<rag, ext, env, pub, sel, obs, dur, chat>>

(***************************************************************************)
(* BaseAgent.run, one action per publication or suspension                 *)
(***************************************************************************)
\* the agent is awaited directly by the orchestrator's own task
Inline(a) ==
    \/ a = "molecule" /\ pc = "molrun"
    \/ a = "synthesizer" /\ pc = "synrun"

\* the agent is one of the tasks of the gather
Gathered(a) == pc = "gather" /\ In(a, analysis_agents)

\* position of a in the list of gathered agents
RECURSIVE IndexOf(_, _, _)
IndexOf(lst, a, i) ==
    IF i > Len(lst) THEN 0
    ELSE IF lst[i] = a THEN i
    ELSE IndexOf(lst, a, i + 1)

\* tasks get the loop for the first time in the order gather created them
FirstInLine(a) ==
    \A j \in 1..(IndexOf(analysis_agents, a, 1) - 1) : task[analysis_agents[j]].st # "idle"

\* the task of a holds the event loop, or can get it
CanRun(a) == Inline(a) \/ (Gathered(a) /\ cur \in {a, "idle"})

Take(a) == cur' = IF Inline(a) THEN cur ELSE a

Release(a) == cur' = IF Inline(a) THEN cur ELSE "idle"

\* variant: the run of an agent that has returned is started again
AgentStartAgain(a) ==
    /\ CanRun(a)
    /\ task[a].st \in {"idle", "done"}
    /\ Gathered(a) => FirstInLine(a)
    /\ \E script \in ExecScripts(a) :
           task' = [task EXCEPT ![a] = [st |-> "running", todo |-> script, result |-> Absent,
                                        raised |-> FALSE, first |-> 0, last |-> 0]]
    /\ Publish(a, 0, "starting")
    /\ Take(a)
    /\ UNCHANGED <<entry, active, completed, status, types, report, error, pc, agent_results, context,
                   analysis_agents, joins>>
    /\ UNCHANGED <<rag, ext, env, pub, sel, obs, dur, chat>>

\* run up to the call of execute: progress_callback(0, "Starting ...")
AgentStart(a) ==
    /\ CanRun(a)
    /\ task[a].st = "idle"
    /\ Gathered(a) => FirstInLine(a)
    /\ \E script \in ExecScripts(a) :
           task' = [task EXCEPT ![a] = [st |-> "running", todo |-> script, result |-> Absent,
                                        raised |-> FALSE, first |-> 0, last |-> 0]]
    /\ Publish(a, 0, "starting")
    /\ Take(a)
    /\ UNCHANGED <<entry, active, completed, status, types, report, error, pc, agent_results, context,
                   analysis_agents, joins>>
    /\ UNCHANGED <<rag, ext, env, pub, sel, obs, dur, chat>>

\* execute publishes its next checkpoint
AgentEmit(a) ==
    /\ CanRun(a)
    /\ task[a].st = "running"
    /\ task[a].todo # <<>>
    /\ Head(task[a].todo) # Y
    /\ Publish(a, Head(task[a].todo), IF Head(task[a].todo) >= 100 THEN "finished" ELSE "working")
    /\ task' = [task EXCEPT ![a].todo = Tail(@), ![a].last = Head(task[a].todo)]
    /\ Take(a)
    /\ UNCHANGED <<entry, active, completed, status, types, report, error, pc, agent_results, context,
                   analysis_agents, joins>>
    /\ UNCHANGED <<rag, ext, env, pub, sel, obs, dur, chat>>

\* execute awaits something that suspends: the loop is free for another task
AgentYield(a) ==
    /\ CanRun(a)
    /\ task[a].st = "running"
    /\ task[a].todo # <<>>
    /\ Head(task[a].todo) = Y
    /\ task' = [task EXCEPT ![a].todo = Tail(@)]
    /\ Release(a)
    /\ UNCHANGED <<entry, active, completed, status, types, steps, progress7, current_step, report, error, pc,
                   agent_results, context, analysis_agents, joins>>
    /\ UNCHANGED <<rag, ext, env, pub, sel, obs, dur, chat>>

\* execute returned: progress_callback(100, "Completed ..."), success dict
AgentReturn(a) ==
    /\ CanRun(a)
    /\ task[a].st = "running"
    /\ task[a].todo = <<>>
    /\ Publish(a, 100, "completed")
    /\ task' = [task EXCEPT ![a] = [@ EXCEPT !.st = "done", !.todo = <<>>,
                                              !.result = SuccessResult, !.last = 100]]
    /\ Release(a)
    /\ UNCHANGED <<entry, active, completed, status, types, report, error, pc, agent_results, context,
                   analysis_agents, joins>>
    /\ UNCHANGED <<rag, ext, env, pub, sel, obs, dur, chat>>

\* variant: execute may raise whatever the services' availability
CanRaiseAlways(e) == TRUE

\* With the store and the generative capability both unavailable every
\* execute runs on mock search results and static fallbacks only: no
\* statement of those paths raises.  Otherwise the values come from the store
\* or from a completion, and execute may raise on them.
CanRaise(e) == e.store \/ e.llm

\* variant: the except branch returns the error dict without a publication
AgentRaiseSilent(a) ==
    /\ CanRun(a)
    /\ CanRaise(env)
    /\ task[a].st = "running"
    /\ task[a].todo # <<>>
    /\ Head(task[a].todo) # 10
    /\ task' = [task EXCEPT ![a] = [@ EXCEPT !.st = "done", !.todo = <<>>, !.result = ErrorResult,
                                              !.raised = TRUE]]
    /\ Release(a)
    /\ UNCHANGED <<entry, active, completed, status, types, steps, progress7, current_step,
                   report, error, pc, agent_results, context, analysis_agents, joins>>
    /\ UNCHANGED <<rag, ext, env, pub, sel, obs, dur, chat>>

\* execute raised after its first checkpoint: the except branch of run
AgentRaise(a) ==
    /\ CanRun(a)
    /\ CanRaise(env)
    /\ task[a].st = "running"
    /\ task[a].todo # <<>>
    /\ Head(task[a].todo) # 10
    /\ Publish(a, 100, "error")
    /\ task' = [task EXCEPT ![a] = [@ EXCEPT !.st = "done", !.todo = <<>>, !.result = ErrorResult,
                                              !.raised = TRUE, !.last = 100]]
    /\ Release(a)
    /\ UNCHANGED <<entry, active, completed, status, types, report, error, pc, agent_results, context,
                   analysis_agents, joins>>
    /\ UNCHANGED <<rag, ext, env, pub, sel, obs, dur, chat>>

(***************************************************************************)
(* AgentOrchestrator.run, from the molecule result to the end              *)
(***************************************************************************)
\* variant: a failed molecule step ends the run with an error
SelectAndLaunchFatal ==
    /\ pc = "molrun"
    /\ task["molecule"].st = "done"
    /\ agent_results' = [agent_results EXCEPT !["molecule"] = task["molecule"].result]
    /\ context' = [context EXCEPT !["molecule_data"] = ResultData(task["molecule"].result)]
    /\ IF task["molecule"].result.status = "error"
       THEN /\ FailJob("molecule failed")
            /\ UNCHANGED <<analysis_agents, cur, progress7>>
       ELSE /\ analysis_agents' = SelectAgents(types)
            /\ IF SelectAgents(types) # <<>>
               THEN pc' = "gather" /\ cur' = "idle"
               ELSE pc' = "patent0" /\ cur' = cur
            /\ UNCHANGED <<status, error, report, active, completed, progress7>>
    /\ UNCHANGED <<entry, types, steps, current_step, task, joins>>
    /\ UNCHANGED <<rag, ext, env, pub, sel, obs, dur, chat>>

\* lines 87-113: store the molecule result, select the agents, start the gather
SelectAndLaunch ==
    /\ pc = "molrun"
    /\ task["molecule"].st = "done"
    /\ agent_results' = [agent_results EXCEPT !["molecule"] = task["molecule"].result]
    /\ context' = [context EXCEPT !["molecule_data"] = ResultData(task["molecule"].result)]
    /\ analysis_agents' = SelectAgents(types)
    /\ IF SelectAgents(types) # <<>>
       THEN pc' = "gather" /\ cur' = "idle"
       ELSE pc' = "patent0" /\ cur' = cur
    /\ UNCHANGED <<entry, active, completed, status, types, steps, progress7, current_step, report, error, task, joins>>
    /\ UNCHANGED <<rag, ext, env, pub, sel, obs, dur, chat>>

\* variant: the wait returns as soon as one task has finished
JoinReadyAny == \E a \in Range(analysis_agents) : task[a].st = "done"

\* every task of the gather has finished
JoinReady == \A a \in Range(analysis_agents) : task[a].st = "done"

\* variant: the wait ends when the regulatory task has finished
JoinOnRegulatory ==
    /\ pc = "gather"
    /\ cur = "idle"
    /\ In("regulatory", analysis_agents) => task["regulatory"].st = "done"
    /\ ~In("regulatory", analysis_agents) => JoinReady
    /\ joins' = joins + 1
    /\ agent_results' = [s \in Range(StepIds) |->
                            IF In(s, analysis_agents) THEN task[s].result ELSE agent_results[s]]
    /\ context' = [k \in ContextKeys |->
                      IF \E a \in Range(analysis_agents) : k = a \o "_data"
                      THEN ResultData(task[CHOOSE a \in Range(analysis_agents) : k = a \o "_data"].result)
                      ELSE context[k]]
    /\ pc' = "patent0"
    /\ cur' = "main"
    /\ UNCHANGED <<entry, active, completed, status, types, steps, progress7, current_step, report, error,
                   analysis_agents, task>>
    /\ UNCHANGED <<rag, ext, env, pub, sel, obs, dur, chat>>

\* lines 113-123: gather returns, the results are merged in list order
Join ==
    /\ pc = "gather"
    /\ cur = "idle"
    /\ JoinReady
    /\ joins' = joins + 1
    /\ agent_results' = [s \in Range(StepIds) |->
                            IF In(s, analysis_agents) THEN task[s].result ELSE agent_results[s]]
    /\ context' = [k \in ContextKeys |->
                      IF \E a \in Range(analysis_agents) : k = a \o "_data"
                      THEN ResultData(task[CHOOSE a \in Range(analysis_agents) : k = a \o "_data"].result)
                      ELSE context[k]]
    /\ pc' = "patent0"
    /\ cur' = "main"
    /\ UNCHANGED <<entry, active, completed, status, types, steps, progress7, current_step, report, error,
                   analysis_agents, task>>
    /\ UNCHANGED <<rag, ext, env, pub, sel, obs, dur, chat>>

\* progress_callback("patent", 0, None), then asyncio.sleep(0.3)
PatentStart ==
    /\ pc = "patent0"
    /\ Publish("patent", 0, "None")
    /\ pc' = "patent"
    /\ UNCHANGED <<entry, active, completed, status, types, report, error, agent_results, context,
                   analysis_agents, task, cur, joins>>
    /\ UNCHANGED <<rag, ext, env, pub, sel, obs, dur, chat>>

\* lines 129-134: build the patent result from context["regulatory_data"]
PatentStep ==
    /\ pc = "patent"
    /\ IF PatentRaises(context)
       THEN /\ FailJob("AttributeError")
            /\ UNCHANGED <<steps, progress7, current_step, agent_results>>
       ELSE /\ agent_results' = [agent_results EXCEPT
                                    !["patent"] = [status |-> "success",
                                                   data |-> PatentData(context)]]
            /\ Publish("patent", 100, "patent")
            /\ pc' = "syn0"
            /\ UNCHANGED <<status, error, report, active, completed>>
    /\ UNCHANGED <<types, context, analysis_agents, task, cur, joins, entry>>
    /\ UNCHANGED <<rag, ext, env, pub, sel, obs, dur, chat>>

\* progress_callback("synthesizer", 0, None)
SynthAnnounce ==
    /\ pc = "syn0"
    /\ Publish("synthesizer", 0, "None")
    /\ pc' = "synrun"
    /\ UNCHANGED <<entry, active, completed, status, types, report, error, agent_results, context,
                   analysis_agents, task, cur, joins>>
    /\ UNCHANGED <<rag, ext, env, pub, sel, obs, dur, chat>>

\* lines 145-156 and the end of run_analysis_pipeline
Finalize ==
    /\ pc = "synrun"
    /\ task["synthesizer"].st = "done"
    /\ LET res == [agent_results EXCEPT !["synthesizer"] = task["synthesizer"].result]
       IN  /\ agent_results' = res
           /\ IF FormatRaises(res)
              THEN FailJob("AttributeError") /\ UNCHANGED progress7
              ELSE CompleteJob(FormatResults(res))
    /\ UNCHANGED <<types, steps, current_step, context, analysis_agents, task, cur, joins,
                   entry>>
    /\ UNCHANGED <<rag, ext, env, pub, sel, obs, dur, chat>>

Next ==
    \/ StartAnalysis
    \/ ServiceStart
    \/ BeginPipeline
    \/ ParseStart
    \/ ParseDone
    \/ MoleculeAnnounce
    \/ \E a \in Agents : AgentStart(a)
    \/ \E a \in Agents : AgentEmit(a)
    \/ \E a \in Agents : AgentYield(a)
    \/ \E a \in Agents : AgentReturn(a)
    \/ \E a \in Agents : AgentRaise(a)
    \/ SelectAndLaunch
    \/ Join
    \/ PatentStart
    \/ PatentStep
    \/ SynthAnnounce
    \/ Finalize

Spec == Init /\ [][Next]_vars

\* the event loop runs a ready task, and every sleep and call returns
FairSpec == Init /\ [][Next]_vars /\ WF_vars(Next)

(***************************************************************************)
(* services/rag_service.py: RAGService.search                              *)
(***************************************************************************)
\* most documents in the store
MaxDocs == 2

\* largest n_results a caller passes
MaxLimit == 3

\* distances the store reports, in tenths
Distances10 == {0, 7, 8, 15}

Categories == {"general", "ibuprofen"}

Docs == [distance10 : Distances10, category : Categories]

\* the index answers nearest first: a collection is kept by ascending distance
Sorted(c) == \A i \in 1..(Len(c) - 1) : c[i].distance10 <= c[i + 1].distance10

Collections == {c \in SeqsUpTo(Docs, MaxDocs) : Sorted(c)}

\* what _mock_search looks for in the query
Queries == [ibuprofen : BOOLEAN, aspirin : BOOLEAN]

Limits == (-1)..MaxLimit

Min(a, b) == IF a <= b THEN a ELSE b

Max(a, b) == IF a >= b THEN a ELSE b

\* python: lst[:n]
Slice(lst, n) ==
    IF n >= 0 THEN SubSeq(lst, 1, Min(n, Len(lst)))
    ELSE SubSeq(lst, 1, Max(0, Len(lst) + n))

RECURSIVE Filter(_, _)
Filter(c, cat) ==
    IF c = <<>> THEN <<>>
    ELSE IF cat = "None" \/ Head(c).category = cat
         THEN <<Head(c)>> \o Filter(Tail(c), cat)
         ELSE Filter(Tail(c), cat)

\* collection.query: the n nearest documents that pass the where filter
CollectionQuery(c, n, cat) == Slice(Filter(c, cat), Max(n, 0))

\* lines 266-275: one result dict per document, relevance = max(0, 1 - distance)
ToDocument(d) ==
    [source |-> "store", category |-> d.category, distance10 |-> d.distance10,
     relevance10 |-> Max(0, 10 - d.distance10)]

ToDocuments(found) == [i \in 1..Len(found) |-> ToDocument(found[i])]

MockItem(cat, d10, r10) ==
    [source |-> "mock", category |-> cat, distance10 |-> d10, relevance10 |-> r10]

\* variant: no result for a query that names no known drug
MockSearchKnownOnly(query, n) ==
    Slice(IF query.ibuprofen THEN <<MockItem("ibuprofen", 1, 9)>>
          ELSE IF query.aspirin THEN <<MockItem("aspirin", 1, 9)>>
          ELSE <<>>, n)

\* _mock_search: one keyword-matched result, cut to n_results
MockSearch(query, n) ==
    Slice(<<IF query.ibuprofen THEN MockItem("ibuprofen", 1, 9)
            ELSE IF query.aspirin THEN MockItem("aspirin", 1, 9)
            ELSE MockItem("general", 5, 5)>>, n)

\* search as a whole: the result list, and whether the call raised
SearchOutcome(r) ==
    IF ~r.available THEN [out |-> MockSearch(r.query, r.n_results), raised |-> FALSE]
    ELSE IF r.query_raises THEN [out |-> MockSearch(r.query, r.n_results), raised |-> FALSE]
    ELSE [out |-> ToDocuments(CollectionQuery(r.collection, r.n_results, r.category_filter)),
          raised |-> FALSE]

RagInputs ==
    {[phase |-> "ready", collection |-> c, available |-> av, query |-> q, n_results |-> n,
      category_filter |-> f, query_raises |-> qr, out |-> <<>>, raised |-> FALSE] :
        c \in Collections, av \in BOOLEAN, q \in Queries, n \in Limits,
        f \in {"None", "general"}, qr \in BOOLEAN}

\* an uninitialised store has no collection and nothing to query
RagInit ==
    /\ PipelineInit
    /\ ext = ExtIdle
    /\ env = [store |-> TRUE, llm |-> TRUE]
    /\ pub = PubIdle
    /\ sel = SelIdle
    /\ obs = ObsIdle
    /\ dur = DurIdle
    /\ chat = ChatIdle
    /\ rag \in {r \in RagInputs : ~r.available => (r.collection = <<>> /\ ~r.query_raises)}

Finish(r) ==
    [r EXCEPT !.phase = "done", !.out = SearchOutcome(r).out, !.raised = SearchOutcome(r).raised]

\* lines 250-252: the store is not available
SearchUnavailable ==
    /\ rag.phase = "ready"
    /\ ~rag.available
    /\ rag' = Finish(rag)
    /\ UNCHANGED <<pipevars, ext, env, pub, sel, obs, dur, chat>>

\* lines 254-278: the query succeeds
SearchQuery ==
    /\ rag.phase = "ready"
    /\ rag.available
    /\ ~rag.query_raises
    /\ rag' = Finish(rag)
    /\ UNCHANGED <<pipevars, ext, env, pub, sel, obs, dur, chat>>

\* lines 280-282: the query raises
SearchQueryError ==
    /\ rag.phase = "ready"
    /\ rag.available
    /\ rag.query_raises
    /\ rag' = Finish(rag)
    /\ UNCHANGED <<pipevars, ext, env, pub, sel, obs, dur, chat>>

\* the agents that read search results
EvidenceSteps == {"molecule", "clinical", "market", "regulatory"}

\* python: [r for r in rag_results if r.get("relevance_score", 0) > 0.2]
RelevantOnly(rag_results) == SelectSeq(rag_results, LAMBDA r : r.relevance10 > 2)

\* clinical_agent.py line 43
ClinicalContexts(rag_results) == RelevantOnly(rag_results)

\* market_agent.py line 55
MarketContexts(rag_results) == RelevantOnly(rag_results)

\* regulatory_agent.py line 101
RegContexts(rag_results) == RelevantOnly(rag_results)

\* molecule_agent.py lines 317-319: the first result decides, then every
\* result is passed on; the else branch passes nothing to the extraction
MoleculeContexts(rag_results) ==
    IF rag_results # <<>> /\ rag_results[1].relevance10 > 3 THEN rag_results ELSE <<>>

Contexts(step, rag_results) ==
    CASE step = "molecule" -> MoleculeContexts(rag_results)
      [] step = "clinical" -> ClinicalContexts(rag_results)
      [] step = "market" -> MarketContexts(rag_results)
      [] step = "regulatory" -> RegContexts(rag_results)

\* execute of one agent, from the answer of search to the list of contexts
SelectContexts(step) ==
    /\ rag.phase = "done"
    /\ sel.phase = "idle"
    /\ sel' = [phase |-> "done", step |-> step, contexts |-> Contexts(step, rag.out)]
    /\ UNCHANGED <<pipevars, rag, ext, env, pub, obs, dur, chat>>

RagNext ==
    \/ SearchUnavailable
    \/ SearchQuery
    \/ SearchQueryError
    \/ \E step \in EvidenceSteps : SelectContexts(step)

SpecRag == RagInit /\ [][RagNext]_vars

(***************************************************************************)
(* agents/molecule_agent.py: _extract_molecule_info_from_context           *)
(***************************************************************************)
\* longest completion text, in tokens
MaxResp == 3

\* "fence" is a Markdown code fence, "json" the language tag, "{}" a JSON object,
\* "num" a JSON value that is no object, "x" other text, " " white space
Tokens == {"fence", "json", "{}", "num", "x", " "}

JsonValues == {"{}", "num"}

RECURSIVE LStrip(_)
LStrip(t) == IF t # <<>> /\ Head(t) = " " THEN LStrip(Tail(t)) ELSE t

RECURSIVE RStrip(_)
RStrip(t) == IF t # <<>> /\ t[Len(t)] = " " THEN RStrip(SubSeq(t, 1, Len(t) - 1)) ELSE t

\* python: text.strip()
Strip(t) == RStrip(LStrip(t))

\* python: text.startswith(tok)
StartsWith(t, tok) == t # <<>> /\ Head(t) = tok

RECURSIVE UpToFence(_)
UpToFence(t) ==
    IF t = <<>> \/ Head(t) = "fence" THEN <<>> ELSE <<Head(t)>> \o UpToFence(Tail(t))

\* python: the second part of text split at the fences, for a text that starts with one
SecondPart(t) == UpToFence(Tail(t))

\* lines 209-214: strip, drop the code fence and the language tag, strip
CleanResponse(resp) ==
    LET a == Strip(resp)
        b == IF StartsWith(a, "fence")
             THEN (IF StartsWith(SecondPart(a), "json")
                   THEN Tail(SecondPart(a))
                   ELSE SecondPart(a))
             ELSE a
    IN  Strip(b)

\* json.loads accepts one value with white space around it
JsonLoads(t) == Len(Strip(t)) = 1 /\ Strip(t)[1] \in JsonValues

\* variant: the parse error is not caught
ExtractOutcomeNoCatch(avail, resp) ==
    IF avail
    THEN (IF JsonLoads(CleanResponse(resp))
          THEN [source |-> "llm",
                value |-> IF Strip(CleanResponse(resp))[1] = "{}" THEN "object" ELSE "number",
                raised |-> FALSE]
          ELSE [source |-> "none", value |-> "none", raised |-> TRUE])
    ELSE [source |-> "regex", value |-> "record", raised |-> FALSE]

\* the whole method: the generative record if the completion parses,
\* the record of _regex_extract_info otherwise
ExtractOutcome(avail, resp) ==
    IF avail /\ JsonLoads(CleanResponse(resp))
    THEN [source |-> "llm",
          value |-> IF Strip(CleanResponse(resp))[1] = "{}" THEN "object" ELSE "number",
          raised |-> FALSE]
    ELSE [source |-> "regex", value |-> "record", raised |-> FALSE]

ExtInit ==
    /\ PipelineInit
    /\ rag = RagIdle
    /\ env = [store |-> TRUE, llm |-> TRUE]
    /\ pub = PubIdle
    /\ sel = SelIdle
    /\ obs = ObsIdle
    /\ dur = DurIdle
    /\ chat = ChatIdle
    /\ ext \in {[phase |-> "ready", llm_available |-> av, response |-> r,
                 source |-> "none", value |-> "none", raised |-> FALSE] :
                    av \in BOOLEAN, r \in SeqsUpTo(Tokens, MaxResp)}

Extracted(e) ==
    LET o == ExtractOutcome(e.llm_available, e.response)
    IN  [e EXCEPT !.phase = "done", !.source = o.source, !.value = o.value, !.raised = o.raised]

\* lines 203-217: the completion parses and is returned
ExtractGenerative ==
    /\ ext.phase = "ready"
    /\ ext.llm_available
    /\ JsonLoads(CleanResponse(ext.response))
    /\ ext' = Extracted(ext)
    /\ UNCHANGED <<pipevars, rag, env, pub, sel, obs, dur, chat>>

\* lines 218-224: parsing raised, fall back to the regex extraction
ExtractAfterParseError ==
    /\ ext.phase = "ready"
    /\ ext.llm_available
    /\ ~JsonLoads(CleanResponse(ext.response))
    /\ ext' = Extracted(ext)
    /\ UNCHANGED <<pipevars, rag, env, pub, sel, obs, dur, chat>>

\* lines 203, 224: no generative capability, regex extraction
ExtractWithoutLLM ==
    /\ ext.phase = "ready"
    /\ ~ext.llm_available
    /\ ext' = Extracted(ext)
    /\ UNCHANGED <<pipevars, rag, env, pub, sel, obs, dur, chat>>

ExtNext ==
    \/ ExtractGenerative
    \/ ExtractAfterParseError
    \/ ExtractWithoutLLM

SpecExtract == ExtInit /\ [][ExtNext]_vars

(***************************************************************************)
(* api/analysis.py: update_step_progress called on the record of a job     *)
(***************************************************************************)
\* most calls made in a row
MaxPubs == 3

\* step ids a caller passes: two steps of the list and an id that is not in it
PubIds == {"parse", "molecule", "unknown"}

PubProgress == {0, 50, 100}

PubSummaries == {"None", "first", "second"}

\* the record run_analysis_pipeline has just written
PubInit ==
    /\ status = "processing"
    /\ types = <<>>
    /\ steps = InitialSteps
    /\ progress7 = 0
    /\ current_step = 0
    /\ report = NoReport
    /\ error = "absent"
    /\ pc = "idle"
    /\ agent_results = [s \in Range(StepIds) |-> Absent]
    /\ context = [k \in ContextKeys |-> "absent"]
    /\ analysis_agents = <<>>
    /\ task = [a \in Agents |-> IdleTask]
    /\ cur = "main"
    /\ joins = 0
    /\ entry = "api"
    /\ active = NoEntry
    /\ completed = NoEntry
    /\ rag = RagIdle
    /\ ext = ExtIdle
    /\ env = [store |-> TRUE, llm |-> TRUE]
    /\ pub = PubIdle
    /\ sel = SelIdle
    /\ obs = ObsIdle
    /\ dur = DurIdle
    /\ chat = ChatIdle

\* update_step_progress(analysis_id, step_id, progress, summary)
UpdateStepProgress ==
    /\ pub.n < MaxPubs
    /\ \E id \in PubIds, p \in PubProgress, m \in PubSummaries :
           /\ Publish(id, p, m)
           /\ pub' = [id |-> id, p |-> p, summary |-> m, n |-> pub.n + 1,
                      repeat |-> (pub.id = id /\ pub.p = p /\ pub.summary = m)]
    /\ UNCHANGED <<status, types, report, error, pc, agent_results, context, analysis_agents,
                   task, cur, joins, entry, active, completed, rag, ext, env,
                   sel, obs, dur, chat>>

PubNext == UpdateStepProgress

SpecPublish == PubInit /\ [][PubNext]_vars

(***************************************************************************)
(* api/analysis.py: stream_analysis_progress beside one job of the API     *)
(***************************************************************************)
\* the requests of the jobs that are streamed: at most one analysis type
StreamRequests == {req \in Requests : Len(req) <= 1}

StreamInit ==
    /\ PipelineInit
    /\ rag = RagIdle
    /\ ext = ExtIdle
    /\ env \in Envs
    /\ pub = PubIdle
    /\ sel = SelIdle
    /\ obs = ObsIdle
    /\ dur = DurIdle
    /\ chat = ChatIdle

\* POST /analysis/start for a request of StreamRequests
StreamStartAnalysis ==
    /\ entry = "none"
    /\ entry' = "api"
    /\ \E req \in StreamRequests : types' = req
    /\ status' = "processing"
    /\ steps' = <<>>
    /\ progress7' = 0
    /\ current_step' = 0
    /\ pc' = "scheduled"
    /\ UNCHANGED <<report, error, agent_results, context, analysis_agents, task, cur, joins,
                   active, completed>>
    /\ UNCHANGED <<rag, ext, env, pub, sel, obs, dur, chat>>

\* variant: the loop stops on a completed job only
StreamDoneCompletedOnly(s) == s = "completed"

\* line 107: analysis["status"] in ["completed", "error"]
StreamDone(s) == s \in {"completed", "error"}

\* lines 92-93: the id is not in analyses_store, the request ends with 404
StreamNotFound ==
    /\ obs.st = "closed"
    /\ status = "none"
    /\ obs' = [obs EXCEPT !.st = "notfound"]
    /\ UNCHANGED <<pipevars, rag, ext, env, pub, sel, dur, chat>>

\* lines 92-111: the id is known, the generator is handed to the response
StreamOpen ==
    /\ obs.st = "closed"
    /\ status # "none"
    /\ obs' = [obs EXCEPT !.st = "polling"]
    /\ UNCHANGED <<pipevars, rag, ext, env, pub, sel, dur, chat>>

\* lines 96-109: one turn of the loop: read the record, emit it, then stop
\* on a terminal status or sleep
StreamPoll ==
    /\ obs.st = "polling"
    /\ obs' = IF status = "none"
              THEN [obs EXCEPT !.st = "ended"]
              ELSE [st |-> IF StreamDone(status) THEN "ended" ELSE "polling",
                    last |-> status,
                    polled |-> obs.polled \/ ~StreamDone(status)]
    /\ UNCHANGED <<pipevars, rag, ext, env, pub, sel, dur, chat>>

StreamNext ==
    \/ StreamStartAnalysis
    \/ BeginPipeline
    \/ ParseStart
    \/ ParseDone
    \/ MoleculeAnnounce
    \/ \E a \in Agents : AgentStart(a)
    \/ \E a \in Agents : AgentEmit(a)
    \/ \E a \in Agents : AgentYield(a)
    \/ \E a \in Agents : AgentReturn(a)
    \/ \E a \in Agents : AgentRaise(a)
    \/ SelectAndLaunch
    \/ Join
    \/ PatentStart
    \/ PatentStep
    \/ SynthAnnounce
    \/ Finalize
    \/ StreamNotFound
    \/ StreamOpen
    \/ StreamPoll

\* the event loop runs every ready task, and every sleep returns
FairStream == StreamInit /\ [][StreamNext]_vars /\ WF_vars(StreamNext)

(***************************************************************************)
(* agents/base.py: BaseAgent.run of one agent instance shared by the jobs  *)
(* of an AnalysisService                                                   *)
(***************************************************************************)
\* the numbers of times execute suspends before it returns: the sleep, and
\* where the services are real the search and the completion
Awaits == {1, 2, 3}

SharedInit ==
    /\ PipelineInit
    /\ rag = RagIdle
    /\ ext = ExtIdle
    /\ env = [store |-> TRUE, llm |-> TRUE]
    /\ pub = PubIdle
    /\ sel = SelIdle
    /\ obs = ObsIdle
    /\ dur = DurIdle
    /\ chat = ChatIdle

\* base.py lines 46-53: self.start_time = utcnow(), then execute up to its
\* first suspension
RunBegin(j) ==
    /\ dur.runs[j].st = "idle"
    /\ \E n \in Awaits :
           dur' = [clock |-> dur.clock + 1,
                   start_time |-> dur.clock + 1,
                   runs |-> [dur.runs EXCEPT ![j] = [st |-> "running", left |-> n - 1,
                                                     own |-> dur.clock + 1, used |-> 0]]]
    /\ UNCHANGED <<pipevars, rag, ext, env, pub, sel, obs, chat>>

\* execute is resumed and runs up to its next suspension
RunResume(j) ==
    /\ dur.runs[j].st = "running"
    /\ dur.runs[j].left > 0
    /\ dur' = [dur EXCEPT !.clock = @ + 1, !.runs[j].left = @ - 1]
    /\ UNCHANGED <<pipevars, rag, ext, env, pub, sel, obs, chat>>

\* base.py lines 55-68: execute returned, duration = end_time - self.start_time
RunEnd(j) ==
    /\ dur.runs[j].st = "running"
    /\ dur.runs[j].left = 0
    /\ dur' = [dur EXCEPT !.clock = @ + 1, !.runs[j].st = "done",
                          !.runs[j].used = dur.start_time]
    /\ UNCHANGED <<pipevars, rag, ext, env, pub, sel, obs, chat>>

SharedNext ==
    \/ \E j \in Jobs : RunBegin(j)
    \/ \E j \in Jobs : RunResume(j)
    \/ \E j \in Jobs : RunEnd(j)

SpecShared == SharedInit /\ [][SharedNext]_vars

(***************************************************************************)
(* services/chat_service.py: ChatService.process_message                   *)
(***************************************************************************)
\* some conversations have a stored history when the calls begin
ChatInit ==
    /\ PipelineInit
    /\ rag = RagIdle
    /\ ext = ExtIdle
    /\ env = [store |-> TRUE, llm |-> TRUE]
    /\ pub = PubIdle
    /\ sel = SelIdle
    /\ obs = ObsIdle
    /\ dur = DurIdle
    /\ chat \in {[ChatIdle EXCEPT !.llm = l, !.conversations = cv] :
                    l \in BOOLEAN,
                    cv \in {f \in [ConvIds -> {0} \cup ListObjs] :
                               \A k \in ConvIds : f[k] \in {0, k}}}

ChatMessage(role, c) == [role |-> role, call |-> c]

\* line 41: self.conversations.get(conversation_id, []) - the stored list
\* itself when there is one, a new list otherwise
HistoryOf(c, k) == IF chat.conversations[k] = 0 THEN 2 + c ELSE chat.conversations[k]

\* lines 36-61 or 36-69: get the history, append the user message, and
\* suspend in the await of the reply
ProcessBegin(c) ==
    /\ chat.calls[c].pc = "idle"
    /\ \E k \in ConvIds :
           chat' = [chat EXCEPT
                       !.lists[HistoryOf(c, k)] = Append(@, ChatMessage("user", c)),
                       !.calls[c] = [pc |-> "awaiting", conv |-> k,
                                     history |-> HistoryOf(c, k)]]
    /\ UNCHANGED <<pipevars, rag, ext, env, pub, sel, obs, dur>>

\* lines 79-87: append the assistant message, save the list under the id
Saved(c) ==
    [chat EXCEPT
        !.lists[chat.calls[c].history] = Append(@, ChatMessage("assistant", c)),
        !.conversations[chat.calls[c].conv] = chat.calls[c].history,
        !.calls[c].pc = "returned"]

\* lines 59-66, 79-94: llm.generate_completion has answered
ReplyFromLLM(c) ==
    /\ chat.calls[c].pc = "awaiting"
    /\ chat.llm
    /\ chat' = Saved(c)
    /\ UNCHANGED <<pipevars, rag, ext, env, pub, sel, obs, dur>>

\* lines 67-76, 79-94: chat_agent.respond has answered
ReplyFromAgent(c) ==
    /\ chat.calls[c].pc = "awaiting"
    /\ ~chat.llm
    /\ chat' = Saved(c)
    /\ UNCHANGED <<pipevars, rag, ext, env, pub, sel, obs, dur>>

ChatNext ==
    \/ \E c \in Calls : ProcessBegin(c)
    \/ \E c \in Calls : ReplyFromLLM(c)
    \/ \E c \in Calls : ReplyFromAgent(c)

SpecChat == ChatInit /\ [][ChatNext]_vars

(***************************************************************************)
(* Properties of the job pipeline, checked under Spec                      *)
(***************************************************************************)
\* the status of step id in the job snapshot ("none": no status yet)
StepStatus(id) ==
    IF FindStep(steps, id, 1) = 0 THEN "none" ELSE steps[FindStep(steps, id, 1)].status

StepSummary(id) ==
    IF FindStep(steps, id, 1) = 0 THEN "None" ELSE steps[FindStep(steps, id, 1)].result_summary

\* the steps a request selects
SelectedSteps == {"parse", "molecule", "patent", "synthesizer"} \cup Range(SelectAgents(types))

\* the job status, whichever store holds the job
JobStatus ==
    IF entry = "service"
    THEN (IF completed # NoEntry THEN completed.status ELSE active.status)
    ELSE status

JobFailed == JobStatus \in {"error", "failed"}

\* the report of the job, whichever store holds the job
JobReport == IF entry = "service" THEN completed.results ELSE report

\* orchestrator.run is past the gather
AfterJoin == pc \in {"patent0", "patent", "syn0", "synrun", "done"}

Failed(a) == task[a].st = "done" /\ task[a].result.status = "error"

Succeeded(a) == task[a].st = "done" /\ task[a].result.status = "success"

\* C1: a completed job has every selected step in a terminal step status
\* and a report that is not null.
C1_CompletedMeansAllTerminal ==
    /\ status = "completed" =>
          /\ \A s \in SelectedSteps : StepStatus(s) \in TerminalStep
          /\ report # NoReport
    /\ completed.status = "completed" => completed.results # NoReport

\* a job that asked for the three analyses is completed
C1_Witness ==
    /\ status = "completed"
    /\ Len(analysis_agents) = 3
    /\ Succeeded("molecule")

C3_FanOutFailureNotFatal ==
    (/\ pc = "done"
     /\ Succeeded("molecule")
     /\ \E a \in FanOut : Failed(a)
     /\ task["synthesizer"].st \in {"idle", "done"} /\ ~Failed("synthesizer")) =>
        /\ JobStatus = "completed"
        /\ JobReport # NoReport

\* C4: when execute raised, the step shown in the job snapshot has status error.
C4_RaisedStepShowsError ==
    \A a \in Agents :
        (entry = "api" /\ Failed(a)) => StepStatus(a) = "error"

\* C5: after the join the context entry of a failed fan-out step is a
\* placeholder: it is there and it is not None.
C5_FailedEntryIsPlaceholder ==
    AfterJoin =>
        \A a \in Range(analysis_agents) :
            Failed(a) => context[a \o "_data"] \notin {"absent", "None"}

\* C6: the gather returns exactly once, only when every launched member
\* has finished, whatever number of members failed; while members are
\* unfinished some task can always run, and once all have finished the
\* join can be taken.
C6_JoinExactlyOnce ==
    /\ joins <= 1
    /\ pc = "gather" => joins = 0
    /\ (AfterJoin /\ analysis_agents # <<>>) =>
          /\ joins = 1
          /\ \A a \in Range(analysis_agents) : task[a].st = "done"
    /\ (pc = "gather" /\ ~JoinReady) =>
          \E a \in Range(analysis_agents) : task[a].st # "done" /\ CanRun(a)
    /\ (pc = "gather" /\ JoinReady) => cur = "idle"

\* the join was passed with one member failed and another succeeded
C6_Witness ==
    /\ joins = 1
    /\ \E a, b \in Range(analysis_agents) : Failed(a) /\ Succeeded(b)

\* C9: a step whose status is terminal stays terminal at every publication.
C9_TerminalStepStays ==
    [][\A i \in 1..Len(steps) :
          (Len(steps') = Len(steps) /\ steps[i].status \in TerminalStep)
              => steps'[i].status \in TerminalStep]_vars

\* a second publication reached a step that was already terminal
C9_Witness ==
    /\ StepStatus("clinical") = "completed"
    /\ StepSummary("clinical") \in {"completed", "error"}

\* C10: the job status only moves none -> processing -> completed or
\* failed, and a terminal status never changes.
C10_JobStatusForward ==
    [][/\ JobStatus \in {"completed", "error", "failed"} => JobStatus' = JobStatus
       /\ JobStatus' # JobStatus =>
             \/ JobStatus = "none" /\ JobStatus' = "processing"
             \/ JobStatus = "processing" /\ JobStatus' \in {"completed", "error", "failed"}]_vars

\* a job of the service has failed
C10_Witness ==
    /\ pc = "done"
    /\ entry = "service"
    /\ active.status = "failed"

\* the error message of the job, whichever store holds the job
JobError == IF entry = "service" THEN active.error ELSE error

C12_RunContainsErrors ==
    [][\A a \in Agents :
          (task[a].st = "running" /\ task'[a].raised) =>
              /\ task'[a].st = "done"
              /\ task'[a].result.status = "error"
              /\ pc' = pc
              /\ JobStatus' = JobStatus
              /\ \A b \in Agents \ {a} : task'[b] = task[b]]_vars

\* one gathered step raised while a sibling was suspended in its execute, and
\* the sibling went on to return
C12_Witness ==
    /\ task["clinical"].raised
    /\ task["clinical"].result = ErrorResult
    /\ Succeeded("market")
    /\ task["regulatory"].st = "running"

\* C17: when a fan-out step, the patent step or the synthesis step has
\* emitted a progress event the molecule step is terminal, and when the
\* molecule step has started the parse step is at 100.
C17_SeedBeforeTheRest ==
    /\ \A a \in FanOut \cup {"synthesizer"} :
           task[a].st # "idle" => task["molecule"].st = "done"
    /\ pc \in {"patent", "syn0", "synrun"} => task["molecule"].st = "done"
    /\ (entry = "api" /\ \E s \in FanOut \cup {"patent", "synthesizer"} : StepStatus(s) # "none") =>
           StepStatus("molecule") \in TerminalStep
    /\ task["molecule"].st # "idle" => (pc \in {"molrun", "gather"} \/ AfterJoin)
    /\ (entry = "api" /\ StepStatus("molecule") # "none") =>
           (StepStatus("parse") = "completed" /\ StepSummary("parse") = "parsed")

\* a fan-out step is in its execute after the molecule step failed
C17_Witness ==
    /\ entry = "api"
    /\ task["regulatory"].st = "running"
    /\ task["regulatory"].last = 30
    /\ Failed("molecule")
    /\ StepStatus("parse") = "completed"

Launched == pc = "gather" \/ AfterJoin

\* C19 as stated: the fan-out steps are launched in the order in which the
\* caller listed their analysis types.
C19_LaunchOrderIsRequestOrder ==
    Launched => analysis_agents = RequestedOrder(types)

\* the members of a set of agents in the order clinical, market, regulatory
InFixedOrder(S) ==
    (IF "clinical" \in S THEN <<"clinical">> ELSE <<>>)
    \o (IF "market" \in S THEN <<"market">> ELSE <<>>)
    \o (IF "regulatory" \in S THEN <<"regulatory">> ELSE <<>>)

\* C19 amended: the fan-out steps are launched in the fixed order clinical,
\* market, regulatory, whatever the order of the request; a task starts
\* only when the tasks before it in that order have started.
C19_LaunchOrderIsFixed ==
    Launched =>
        /\ analysis_agents = InFixedOrder(Range(RequestedOrder(types)))
        /\ \A i, j \in 1..Len(analysis_agents) :
               (i < j /\ task[analysis_agents[j]].st # "idle") =>
                   task[analysis_agents[i]].st # "idle"

\* the request lists regulatory before clinical, clinical was started first
C19_Witness ==
    /\ types = <<"regulatory", "competitive", "clinical">>
    /\ pc = "gather"
    /\ task["clinical"].st = "running"
    /\ task["market"].st = "idle"
    /\ task["regulatory"].st = "idle"

\* C20 as stated: once the regulatory step has ended the patent step has
\* started or can start, whether clinical and market have ended or not.
C20_PatentStartsOnRegulatory ==
    (/\ In("regulatory", analysis_agents)
     /\ task["regulatory"].st = "done"
     /\ \E a \in Range(analysis_agents) : task[a].st # "done") =>
        (pc \in {"patent", "syn0", "synrun", "done"} \/ ENABLED PatentStart)

\* C20 amended: the patent step starts only after the gather has returned.
\* While a task of the gather is unfinished the regulatory entry is not in
\* the context and the patent step has emitted nothing; when the patent
\* step has started every launched step, clinical and market included, is
\* terminal and the regulatory entry is in the context.
C20_PatentAfterJoin ==
    /\ pc = "gather" =>
           /\ context["regulatory_data"] = "absent"
           /\ agent_results["patent"] = Absent
           /\ entry = "api" => StepStatus("patent") = "none"
    /\ (pc \in {"patent", "syn0", "synrun"} \/ (entry = "api" /\ StepStatus("patent") # "none")) =>
           /\ \A a \in Range(SelectAgents(types)) : task[a].st = "done"
           /\ In("regulatory", SelectAgents(types)) => context["regulatory_data"] # "absent"

\* the patent step has started after the three members ended
C20_Witness ==
    /\ pc = "patent"
    /\ entry = "api"
    /\ StepStatus("patent") = "in-progress"
    /\ Len(analysis_agents) = 3
    /\ context["regulatory_data"] = "dict"
    /\ \A a \in FanOut : task[a].st = "done"

\* the progress of step id in the job snapshot (-1: none yet)
StepProgress(id) ==
    IF FindStep(steps, id, 1) = 0 THEN -1 ELSE steps[FindStep(steps, id, 1)].progress

\* C15: the first progress a run gives to its callback is 0 and the last
\* one is 100, whether execute returned or raised; the snapshot of a job of
\* the API then shows the step at 100.
C15_FirstZeroLastHundred ==
    \A a \in Agents :
        /\ task[a].st # "idle" => task[a].first = 0
        /\ task[a].st = "done" =>
              /\ task[a].last = 100
              /\ entry = "api" => StepProgress(a) = 100

\* one run ended by a raise and one by a return
C15_Witness ==
    /\ entry = "api"
    /\ task["market"].raised
    /\ task["market"].first = 0
    /\ task["market"].last = 100
    /\ Succeeded("clinical")
    /\ task["clinical"].last = 100

(***************************************************************************)
(* Properties of whole runs, checked under FairSpec                        *)
(***************************************************************************)
\* the store and the generative capability are both unavailable
ScenarioB == ~env.store /\ ~env.llm

ThreeRequested == {"clinical", "market", "regulatory"} \subseteq Range(types)

\* C16: a job that asked for the clinical, market and regulatory analyses
\* ends; when no step failed it ends completed, and its report then has the
\* molecule, trials, market and regulatory sections and a synthesis with at
\* least one citation.
C16_ScenarioACompletes ==
    /\ (ThreeRequested /\ entry # "none") ~>
           (pc = "done" /\ (JobStatus = "completed" \/ \E a \in Agents : Failed(a)))
    /\ []((ThreeRequested /\ pc = "done" /\ \A a \in Agents : ~Failed(a)) =>
            /\ JobStatus = "completed"
            /\ JobReport.moleculeData = "dict"
            /\ JobReport.clinicalTrials = "trials"
            /\ JobReport.marketData = "dict"
            /\ JobReport.regulatoryStatus = "known"
            /\ JobReport.insights = "list"
            /\ JobReport.sources >= 1)

\* a job of the service for exactly the three analyses completed with citations
C16_Witness ==
    /\ entry = "service"
    /\ types = <<"clinical", "market", "regulatory">>
    /\ env.store /\ env.llm
    /\ completed.status = "completed"
    /\ completed.results.sources >= 1
    /\ \A a \in Agents : Succeeded(a)

(***************************************************************************)
(* Properties of update_step_progress, checked under SpecPublish           *)
(***************************************************************************)
\* what a reader of the snapshot sees of the steps
StepView(lst) ==
    [i \in 1..Len(lst) |-> [id |-> lst[i].id, status |-> lst[i].status,
                            progress |-> lst[i].progress,
                            result_summary |-> lst[i].result_summary]]

\* C13: publishing the same (step id, 100, summary) a second time leaves
\* the step statuses, progress values, summaries and the overall progress
\* as the first publication left them, and adds no entry.
C13_RepublishIsIdempotent ==
    [][(pub'.n = pub.n + 1 /\ pub'.repeat /\ pub'.p = 100) =>
          /\ Len(steps') = Len(steps)
          /\ StepView(steps') = StepView(steps)
          /\ progress7' = progress7]_vars

\* a step of the list was published twice at 100 with the same summary
C13_Witness ==
    /\ pub.repeat
    /\ pub.p = 100
    /\ pub.id = "molecule"
    /\ pub.summary = "first"
    /\ StepStatus("molecule") = "completed"
    /\ StepSummary("molecule") = "first"

NoRepeat(lst) == \A i, j \in 1..Len(lst) : lst[i] = lst[j] => i = j

\* the request asks for agent a
Asked(a) == In(a, types) \/ (a = "market" /\ In("competitive", types))

C25_WitnessNoFanOut ==
    /\ types = <<"safety">>
    /\ analysis_agents = <<>>
    /\ pc = "done"
    /\ JobStatus = "completed"

\* C26: each publication that changes the step list leaves the overall
\* progress at 100 * (steps with status completed) / (steps in the list);
\* the overall progress never decreases; it is 100 when the job status is
\* completed.  (progress7 is the progress multiplied by the length of the list.)
C26_ProgressIsCompletedShare ==
    /\ [][steps' # steps =>
             progress7' = 100 * Cardinality({i \in 1..Len(steps') :
                                                steps'[i].status = "completed"})]_vars
    /\ [][progress7' >= progress7]_vars
    /\ [](status = "completed" => progress7 = 100 * Len(StepIds))

\* a job with no fan-out step is completed at progress 100 with four of its
\* seven steps completed
C26_Witness ==
    /\ status = "completed"
    /\ types = <<>>
    /\ progress7 = 100 * Len(StepIds)
    /\ Cardinality({i \in 1..Len(steps) : steps[i].status = "completed"}) = 4

\* orchestrator.run has ended by raising: at line 131 or in _format_results
RunRaised == pc = "done" /\ (PatentRaises(context) \/ FormatRaises(agent_results))

\* C28: the analysis id is in at most one of active_analyses and
\* completed_analyses; an entry of completed_analyses has status completed
\* and results; a job of the service whose orchestrator run raised is in
\* active_analyses with status failed and its error, and
\* get_analysis_result gives None for it.
C28_OneStoreAtATime ==
    /\ ~(active # NoEntry /\ completed # NoEntry)
    /\ completed # NoEntry => (completed.status = "completed" /\ completed.results # NoReport)
    /\ (entry = "service" /\ RunRaised) =>
          /\ active.status = "failed"
          /\ active.error # "absent"
          /\ completed = NoEntry
          /\ GetAnalysisResult = NoReport

\* a job of the service failed at the patent step and is kept as failed
C28_Witness ==
    /\ entry = "service"
    /\ pc = "done"
    /\ PatentRaises(context)
    /\ active.status = "failed"
    /\ active.error = "AttributeError"
    /\ completed = NoEntry

\* C30: a job that is past the patent step, or has ended after the join,
\* has a patent result with status success, whether or not the regulatory
\* analysis was requested; when it was not requested that result holds an
\* empty record.
C30_PatentAlwaysSuccess ==
    /\ (AfterJoin /\ pc \in {"syn0", "synrun", "done"}) =>
           agent_results["patent"].status = "success"
    /\ (AfterJoin /\ pc \in {"syn0", "synrun", "done"} /\ ~In("regulatory", types)) =>
           agent_results["patent"].data = "empty"

(***************************************************************************)
(* Properties of RAGService.search, checked under SpecRag                  *)
(***************************************************************************)
Synthetic(out) == \E i \in 1..Len(out) : out[i].source = "mock"

\* C7 as stated: for every limit, an uninitialised or empty store or a
\* raising query gives a list with at least one synthetic item, no raise.
C7_AlwaysOneSynthetic ==
    (rag.phase = "done" /\ (~rag.available \/ rag.collection = <<>> \/ rag.query_raises)) =>
        /\ ~rag.raised
        /\ Len(rag.out) >= 1
        /\ Synthetic(rag.out)

\* C7 amended: search never raises; for a limit of at least 1, an
\* uninitialised store or a raising query gives exactly one synthetic item;
\* for a limit below 1 they give the empty list, and an initialised empty
\* store whose query succeeds gives the empty list.
C7_SyntheticWhenUnavailable ==
    rag.phase = "done" =>
        /\ ~rag.raised
        /\ ((~rag.available \/ rag.query_raises) /\ rag.n_results >= 1) =>
              (Len(rag.out) = 1 /\ rag.out[1].source = "mock")
        /\ ((~rag.available \/ rag.query_raises) /\ rag.n_results < 1) => rag.out = <<>>
        /\ (rag.available /\ ~rag.query_raises /\ rag.collection = <<>>) => rag.out = <<>>

\* the query of a store that holds documents raised, and search answered
C7_Witness ==
    /\ rag.phase = "done"
    /\ rag.query_raises
    /\ rag.collection # <<>>
    /\ rag.n_results >= 1
    /\ Synthetic(rag.out)

\* the usage threshold of a step, in tenths
Threshold10(step) == IF step = "molecule" THEN 3 ELSE 2

\* C22: in every step, no evidence scoring below the step's threshold is
\* among the contexts passed on, and evidence scoring exactly at the
\* threshold is among them.
C22_BelowThresholdExcluded ==
    sel.phase = "done" =>
        /\ \A i \in 1..Len(sel.contexts) :
               sel.contexts[i].relevance10 >= Threshold10(sel.step)
        /\ \A i \in 1..Len(rag.out) :
               rag.out[i].relevance10 = Threshold10(sel.step) =>
                   \E j \in 1..Len(sel.contexts) : sel.contexts[j] = rag.out[i]

(***************************************************************************)
(* Properties of the extraction, checked under SpecExtract                 *)
(***************************************************************************)
Spaces(t) == \A i \in 1..Len(t) : t[i] = " "

\* the text is one JSON value with white space around it
PlainJson(r) ==
    \E i \in 1..Len(r) :
        /\ r[i] \in JsonValues
        /\ Spaces(SubSeq(r, 1, i - 1))
        /\ Spaces(SubSeq(r, i + 1, Len(r)))

\* the text is a fenced block, with or without the json tag, that holds one
\* JSON value; what follows the closing fence does not matter
FencedJson(r) ==
    \E f \in 1..Len(r) : \E i \in (f + 1)..Len(r) :
        /\ r[f] = "fence"
        /\ Spaces(SubSeq(r, 1, f - 1))
        /\ r[i] \in JsonValues
        /\ LET mid == SubSeq(r, f + 1, i - 1)
           IN  Spaces(mid) \/ (mid # <<>> /\ Head(mid) = "json" /\ Spaces(Tail(mid)))
        /\ \E j \in (i + 1)..(Len(r) + 1) :
               /\ Spaces(SubSeq(r, i + 1, j - 1))
               /\ (j = Len(r) + 1 \/ r[j] = "fence")

\* the completion is neither JSON nor a fenced JSON block
Malformed(r) == ~PlainJson(r) /\ ~FencedJson(r)

\* C8: with the generative capability available and a malformed completion,
\* the extraction returns the regex record and does not raise.
C8_MalformedGivesRegex ==
    (ext.phase = "done" /\ ext.llm_available /\ Malformed(ext.response)) =>
        /\ ~ext.raised
        /\ ext.source = "regex"
        /\ ext.value = "record"

\* a malformed completion that holds a JSON object was handled
C8_Witness ==
    /\ ext.phase = "done"
    /\ ext.llm_available
    /\ Malformed(ext.response)
    /\ \E i \in 1..Len(ext.response) : ext.response[i] = "{}"
    /\ ext.source = "regex"

\* the fallback is taken only for malformed completions
C8_WellFormedGivesGenerative ==
    (ext.phase = "done" /\ ext.llm_available /\ ~Malformed(ext.response)) =>
        ext.source = "llm"

\* C21: the generative level hands back only a valid record: a completion
\* that parses to something that is no record is never the extraction result.
C21_GenerativeResultIsRecord ==
    (ext.phase = "done" /\ ext.source = "llm") => ext.value = "object"

C27_DurationFromOwnStart ==
    \A j \in Jobs : dur.runs[j].st = "done" => dur.runs[j].used = dur.runs[j].own

(***************************************************************************)
(* Properties of ChatService.process_message, checked under SpecChat       *)
(***************************************************************************)
\* the history stored for the conversation of call c
StoredHistory(c) ==
    IF chat.conversations[chat.calls[c].conv] = 0 THEN <<>>
    ELSE chat.lists[chat.conversations[chat.calls[c].conv]]

\* the stored history holds the user message and the reply of call c
Kept(c) ==
    /\ In(ChatMessage("user", c), StoredHistory(c))
    /\ In(ChatMessage("assistant", c), StoredHistory(c))

\* C29: once all calls have returned, the history stored for the
\* conversation of each call holds that call's user message and its reply.
C29_NoExchangeLost ==
    (\A c \in Calls : chat.calls[c].pc = "returned") => \A c \in Calls : Kept(c)

\* calls on a conversation that had a stored history lose nothing: they all
\* append to the one stored list
C29_StoredHistoryKeepsAll ==
    (\A c \in Calls : chat.calls[c].pc = "returned") =>
        \A c \in Calls : chat.calls[c].history = chat.calls[c].conv => Kept(c)

=============================================================================
